---------------------------- MODULE Spec2Model ----------------------------
(***************************************************************************)
(* Model of the Railway navigation core (src/src/useRailwayProviderValue.ts)*)
(*                                                                         *)
(* The hook keeps React state (journeyStack, currentPosition,              *)
(* userDefinedTrackMaps), one mutable ref (contextMapRef.current) and three *)
(* memoised values (allTracksAsList, currentTrack, returnDirection).  Each  *)
(* action below is one call of a method of the handle returned by the hook, *)
(* followed by the re-render React performs for the state it set: a memo is *)
(* recomputed only when one of the dependencies listed in its useMemo call  *)
(* changed identity.                                                        *)
(*                                                                         *)
(* Conventions                                                             *)
(*  - A JS Map is a sequence of entries in insertion order, keys unique.   *)
(*  - An optional value (T | undefined) is a sequence of length 0 or 1.    *)
(*  - A position is [x, y, ref]; ref is the identity of the JS array, which *)
(*    is what useState/useMemo compare (Object.is); x and y are what the    *)
(*    code compares with == / ===.                                         *)
(*  - View ids and owner ids are non-empty strings; NoId ("") stands for   *)
(*    the falsy values (undefined, null, '') the code tests with ! and ||. *)
(*                                                                         *)
(* Specifications                                                          *)
(*  - Spec: every method, called through the handle of the latest render.  *)
(*  - SpecObserved: the same for one owner, with an observer that keeps    *)
(*    the handle of some render over the calls that follow.                *)
(*  - SpecOverlays: registrations and deregistrations alone.               *)
(*  - SpecNavigation: navigateToView and returnToLast alone, on base maps  *)
(*    of several views.                                                    *)
(*  - SpecLinear: useLinearTrack (src/src/useLinearTracks.ts) on its own.  *)
(*  - SpecStale: registrations through the handle of the latest render,    *)
(*    deregistrations through a handle kept from an earlier render, as the *)
(*    cleanup of useRailwayTracks (src/src/Railway.tsx) makes them.        *)
(***************************************************************************)
EXTENDS Integers, Sequences, FiniteSets, TLC

VARIABLES
    defaultTracks,          \* the TrackMap given to the hook (constant over a run)
    journeyStack,           \* useState<string[]>(['start'])
    currentPosition,        \* useState<TrackPosition>([0, 0])
    userDefinedTrackMaps,   \* useState(new Map<string, TrackMap>())
    contextMap,             \* contextMapRef.current, one Map mutated in place
    allTracksAsList,        \* useMemo(..., [defaultTracks, userDefinedTrackMaps])
    currentTrack,           \* useMemo(..., [currentPosition])
    returnDirection,        \* useMemo(..., [journeyStack, currentPosition])
    allocated,              \* number of registerNewTracks calls so far (array identities)
    last,                   \* history: the last method called and its id argument
    held,                   \* the handle an observer kept from an earlier render, if any
    stepDefinitions,        \* the argument of useLinearTrack
    tracks                  \* the TrackMap useLinearTrack returned, if it ran

vars == <<defaultTracks, journeyStack, currentPosition, userDefinedTrackMaps,
          contextMap, allTracksAsList, currentTrack, returnDirection,
          allocated, last, held, stepDefinitions, tracks>>

---------------------------------------------------------------------------
(* Bounds of the model *)

\* longest journeyStack explored
MaxJourney == 3

\* number of registerNewTracks calls explored in one run
MaxRegistrations == 2

\* longest step list given to useLinearTrack
MaxSteps == 3

\* number of registerNewTracks calls explored in a run without navigation
MaxOverlays == 4

---------------------------------------------------------------------------
(* Values *)

NoId == ""
NoDirection == "null"
Undefined == "undefined"

Pos(x, y, ref) == [x |-> x, y |-> y, ref |-> ref]

Track(id, x, y, ref, render) == [id |-> id, position |-> Pos(x, y, ref), render |-> render]

\* identity of the array literal [0, 0] of the initial state
InitialRef == 0

\* identity of the position array of the i-th entry of the base map
BaseRef(i) == 0 - i

\* identity of the array created for the k-th entry by the n-th registration
FreshRef(n, k) == n * 10 + k

\* base maps the hook is constructed with
DefaultTrackMaps ==
    { << Track("start", 0, 0, BaseRef(1), "Start") >> }

\* base maps of the runs without overlays: one view per cell, two views on
\* the cell of "start", and "start" away from the initial position
NavigationTrackMaps ==
    { << Track("start", 0, 0, BaseRef(1), "Start"), Track("x", 1, 0, BaseRef(2), "X"),
         Track("y", 1, 1, BaseRef(3), "Y") >>,
      << Track("start", 0, 0, BaseRef(1), "Start"), Track("x", 1, 0, BaseRef(2), "X"),
         Track("y", 0, 0, BaseRef(3), "Y") >>,
      << Track("x", 0, 0, BaseRef(1), "X"), Track("start", 1, 0, BaseRef(2), "Start") >> }

OwnerIds == {"app", "more"}

\* The map each owner lays down (useRailwayTracks(id, mapCreator)), positions
\* relative to the anchor.  "app" puts two views on one cell; "more" declares
\* a view on the cell of the base view, a view named like the base view, and
\* a view named like one of "app".
mapCreator(id) ==
    IF id = "app"
    THEN << Track("x", 1, 0, 0, "AppX"), Track("y", 1, 0, 0, "AppY") >>
    ELSE << Track("y", 0, 0, 0, "MoreY"), Track("start", 1, 0, 0, "MoreStart"),
            Track("x", 1, 0, 0, "MoreX") >>

\* ids given to navigateToView
ViewIds == {"start", "x", "y", "missing"}

\* context values given to navigateToView
Contexts == {Undefined, "ctx"}

\* userStartPosition: omitted (<<>>) or a pair
StartPositions == { <<>>, <<[x |-> 0, y |-> 1]>> }

---------------------------------------------------------------------------
(* JS Map, as a sequence of entries keyed by .id *)

MapHas(m, key) == \E i \in DOMAIN m : m[i].id = key

MapGet(m, key) ==
    IF MapHas(m, key) THEN << m[CHOOSE i \in DOMAIN m : m[i].id = key] >> ELSE <<>>

\* a set that moves an existing key to the end
MapSetLast(m, e) ==
    Append(SelectSeq(m, LAMBDA f : f.id # e.id), e)

\* Map.prototype.set: an existing key keeps its place, a new key goes last
MapSet(m, e) ==
    IF MapHas(m, e.id)
    THEN [i \in DOMAIN m |-> IF m[i].id = e.id THEN e ELSE m[i]]
    ELSE Append(m, e)

MapDelete(m, key) == SelectSeq(m, LAMBDA e : e.id # key)

MapKeys(m) == { m[i].id : i \in DOMAIN m }

\* contextMapRef.current: never iterated, so a set of key/value pairs
ContextSet(c, key, value) ==
    { e \in c : e.key # key } \cup { [key |-> key, value |-> value] }

ContextDeleteAll(c, keys) == { e \in c : e.key \notin keys }

ContextKeys(c) == { e.key : e \in c }

---------------------------------------------------------------------------
(* getTracksFromMap *)

SamePosition(p, q) == p.x = q.x /\ p.y = q.y

\* MergeEntry without the name check of line 25, the entry pushed onto the list
MergeEntryUnchecked(unionMap, existingPositions, data) ==
    IF \E i \in DOMAIN existingPositions :
          SamePosition(existingPositions[i], data.position)
    THEN unionMap
    ELSE Append(unionMap, data)

\* lines 25-45: one (data, name) of one user map
MergeEntry(unionMap, existingPositions, data) ==
    IF MapHas(unionMap, data.id)
    THEN unionMap
    ELSE IF \E i \in DOMAIN existingPositions :
                SamePosition(existingPositions[i], data.position)
         THEN unionMap
         ELSE MapSet(unionMap, data)

\* MergeMap that gives up the rest of a user map at its first rejected entry
RECURSIVE MergeMapAborting(_, _, _)
MergeMapAborting(unionMap, existingPositions, mapB) ==
    IF mapB = <<>>
    THEN unionMap
    ELSE IF MergeEntry(unionMap, existingPositions, Head(mapB)) = unionMap
         THEN unionMap
         ELSE MergeMapAborting(MergeEntry(unionMap, existingPositions, Head(mapB)),
                               existingPositions, Tail(mapB))

RECURSIVE MergeMap(_, _, _)
MergeMap(unionMap, existingPositions, mapB) ==
    IF mapB = <<>>
    THEN unionMap
    ELSE MergeMap(MergeEntry(unionMap, existingPositions, Head(mapB)),
                  existingPositions, Tail(mapB))

RECURSIVE MergeAll(_, _, _)
MergeAll(unionMap, existingPositions, setOfUserMaps) ==
    IF setOfUserMaps = <<>>
    THEN unionMap
    ELSE MergeAll(MergeMap(unionMap, existingPositions, Head(setOfUserMaps).tracks),
                  existingPositions, Tail(setOfUserMaps))

\* existingPositions is computed once, from mapA, and never extended
getTracksFromMap(mapA, setOfUserMaps) ==
    MergeAll(mapA, [i \in DOMAIN mapA |-> mapA[i].position], setOfUserMaps)

---------------------------------------------------------------------------
(* Lookups and derived values *)

\* allTracksAsList.find(findById(id))
findById(list, id) ==
    IF \E i \in DOMAIN list : list[i].id = id
    THEN << list[CHOOSE i \in DOMAIN list :
                    /\ list[i].id = id
                    /\ \A j \in DOMAIN list : list[j].id = id => i <= j] >>
    ELSE <<>>

\* allTracksAsList.find(item => item.position[0] === p[0] && item.position[1] === p[1])
findByPosition(list, p) ==
    IF \E i \in DOMAIN list : SamePosition(list[i].position, p)
    THEN << list[CHOOSE i \in DOMAIN list :
                    /\ SamePosition(list[i].position, p)
                    /\ \A j \in DOMAIN list :
                          SamePosition(list[j].position, p) => i <= j] >>
    ELSE <<>>

\* journeyStack[journeyStack.length - 1] || null: the entry on top
TopTrackId(stack) ==
    IF Len(stack) >= 1 THEN stack[Len(stack)] ELSE NoId

\* journeyStack[journeyStack.length - 2] || null
PreviousTrackId(stack) ==
    IF Len(stack) >= 2 THEN stack[Len(stack) - 1] ELSE NoId

\* body of the returnDirection memo
ComputeReturnDirection(stack, list, track, position) ==
    LET previousTrackId == PreviousTrackId(stack)
        previousTrack == findById(list, previousTrackId)
    IN  IF previousTrackId = NoId THEN NoDirection
        ELSE IF previousTrack = <<>> \/ track = <<>> THEN NoDirection
        ELSE LET dX == previousTrack[1].position.x - position.x
             IN  IF dX < 0 THEN "left"
                 ELSE IF dX > 0 THEN "right"
                 ELSE "top"

\* isCurrentTrack(id): currentTrack?.id === id
isCurrentTrack(id) == currentTrack # <<>> /\ currentTrack[1].id = id

---------------------------------------------------------------------------
(* The handle returned by the hook (lines 95-169): its methods close over   *)
(* the values of the render that created it.                                *)

railway ==
    [ journeyStack |-> journeyStack,
      currentPosition |-> currentPosition,
      userDefinedTrackMaps |-> userDefinedTrackMaps,
      allTracksAsList |-> allTracksAsList,
      currentTrack |-> currentTrack,
      returnDirection |-> returnDirection,
      handle |-> "latest" ]

\* what a call leaves in the history variable
Call(op, id) ==
    [ op |-> op, id |-> id ]

\* a re-render that never recomputes the allTracksAsList memo
RenderKeepingList(stack, stackSet, position, maps, mapsSet) ==
    LET positionChanged == position.ref # currentPosition.ref
        list == allTracksAsList
        track == IF positionChanged THEN findByPosition(list, position)
                 ELSE currentTrack
    IN  /\ journeyStack' = stack
        /\ currentPosition' = position
        /\ userDefinedTrackMaps' = maps
        /\ allTracksAsList' = list
        /\ currentTrack' = track
        /\ returnDirection' =
              IF stackSet \/ positionChanged
              THEN ComputeReturnDirection(stack, list, track, position)
              ELSE returnDirection

\* The re-render after a handler: stack, position and maps are the new React
\* state; stackSet / mapsSet tell whether the handler called the setter with a
\* new object.  Each memo is recomputed iff one of its dependencies changed
\* identity (lines 67-93).
Render(stack, stackSet, position, maps, mapsSet) ==
    LET positionChanged == position.ref # currentPosition.ref
        list == IF mapsSet THEN getTracksFromMap(defaultTracks, maps)
                ELSE allTracksAsList
        track == IF positionChanged THEN findByPosition(list, position)
                 ELSE currentTrack
    IN  /\ journeyStack' = stack
        /\ currentPosition' = position
        /\ userDefinedTrackMaps' = maps
        /\ allTracksAsList' = list
        /\ currentTrack' = track
        /\ returnDirection' =
              IF stackSet \/ positionChanged
              THEN ComputeReturnDirection(stack, list, track, position)
              ELSE returnDirection

Unrendered ==
    UNCHANGED <<journeyStack, currentPosition, userDefinedTrackMaps,
                allTracksAsList, currentTrack, returnDirection>>

\* What a held handle is after a call through h.  The handle's values are
\* those of its render; the Map in h.userDefinedTrackMaps is an object, which
\* registerNewTracks (line 141) and deregisterTracks (line 157) change in place
\* before they install a copy of it: mapsInPlace is what the call left in that
\* object, and the held handle sees it if it holds the same object.  The
\* observer follows the two calls after its capture and lets the handle go at
\* the third.
HeldAfter(sameMaps, mapsInPlace, replaced) ==
    IF held = <<>> \/ held[1].age = "two calls" THEN <<>>
    ELSE << [ held[1] EXCEPT
                !.age = IF @ = "new" THEN "one call" ELSE "two calls",
                !.h.userDefinedTrackMaps = IF sameMaps THEN mapsInPlace ELSE @,
                !.current = @ /\ ~replaced ] >>

\* What a call through h leaves outside the state of the hook: the history,
\* and the objects a held handle shares with the hook.  The Map of the held
\* handle is the one the call changes if the call goes through that handle,
\* or if no new Map has been installed since the handle was kept.
Called(op, id, h, mapsInPlace, replaced) ==
    /\ last' = Call(op, id)
    /\ held' = HeldAfter(held # <<>> /\ (h.handle = "held" \/ held[1].current),
                         mapsInPlace, replaced)
    /\ UNCHANGED <<stepDefinitions, tracks>>

---------------------------------------------------------------------------
(* Methods of the handle *)

\* navigateToView that keeps a context already stored for the id
navigateToViewKeepContext(h, id, context) ==
    LET matchingTrack == findById(h.allTracksAsList, id)
    IN  /\ Called("navigateToView", id, h, h.userDefinedTrackMaps, FALSE)
        /\ UNCHANGED <<defaultTracks, allocated>>
        /\ IF matchingTrack = <<>>
           THEN UNCHANGED contextMap /\ Unrendered
           ELSE /\ Len(h.journeyStack) < MaxJourney
                /\ contextMap' = IF id \in ContextKeys(contextMap) THEN contextMap
                                 ELSE ContextSet(contextMap, id, context)
                /\ Render(Append(h.journeyStack, matchingTrack[1].id), TRUE,
                          matchingTrack[1].position,
                          userDefinedTrackMaps, FALSE)

\* navigateToView that stores the context before it looks the id up
navigateToViewEager(h, id, context) ==
    LET matchingTrack == findById(h.allTracksAsList, id)
    IN  /\ Called("navigateToView", id, h, h.userDefinedTrackMaps, FALSE)
        /\ UNCHANGED <<defaultTracks, allocated>>
        /\ contextMap' = ContextSet(contextMap, id, context)
        /\ IF matchingTrack = <<>>
           THEN Unrendered
           ELSE /\ Len(h.journeyStack) < MaxJourney
                /\ Render(Append(h.journeyStack, matchingTrack[1].id), TRUE,
                          matchingTrack[1].position,
                          userDefinedTrackMaps, FALSE)

\* lines 101-113
navigateToView(h, id, context) ==
    LET matchingTrack == findById(h.allTracksAsList, id)
    IN  /\ Called("navigateToView", id, h, h.userDefinedTrackMaps, FALSE)
        /\ UNCHANGED <<defaultTracks, allocated>>
        /\ IF matchingTrack = <<>>
           THEN UNCHANGED contextMap /\ Unrendered
           ELSE /\ Len(h.journeyStack) < MaxJourney
                /\ contextMap' = ContextSet(contextMap, matchingTrack[1].id, context)
                /\ Render(Append(h.journeyStack, matchingTrack[1].id), TRUE,
                          matchingTrack[1].position,
                          userDefinedTrackMaps, FALSE)

\* returnToLast that also drops the context of the view it leaves
returnToLastClearing(h) ==
    LET previousTrackId == PreviousTrackId(h.journeyStack)
        matchingTrack == findById(h.allTracksAsList, previousTrackId)
    IN  /\ Called("returnToLast", NoId, h, h.userDefinedTrackMaps, FALSE)
        /\ UNCHANGED <<defaultTracks, allocated>>
        /\ IF previousTrackId = NoId \/ matchingTrack = <<>>
           THEN UNCHANGED contextMap /\ Unrendered
           ELSE /\ contextMap' = ContextDeleteAll(contextMap,
                                     {h.journeyStack[Len(h.journeyStack)]})
                /\ Render(SubSeq(h.journeyStack, 1, Len(h.journeyStack) - 1), TRUE,
                          matchingTrack[1].position,
                          userDefinedTrackMaps, FALSE)

\* returnToLast that removes the last two entries of the stack
returnToLastTwice(h) ==
    LET previousTrackId == PreviousTrackId(h.journeyStack)
        matchingTrack == findById(h.allTracksAsList, previousTrackId)
    IN  /\ Called("returnToLast", NoId, h, h.userDefinedTrackMaps, FALSE)
        /\ UNCHANGED <<defaultTracks, allocated, contextMap>>
        /\ IF previousTrackId = NoId \/ matchingTrack = <<>>
           THEN Unrendered
           ELSE Render(SubSeq(h.journeyStack, 1, Len(h.journeyStack) - 2), TRUE,
                       matchingTrack[1].position,
                       userDefinedTrackMaps, FALSE)

\* returnToLast that removes the last entry although the view before it is
\* not registered, staying where it is
returnToLastUnresolved(h) ==
    LET previousTrackId == PreviousTrackId(h.journeyStack)
        matchingTrack == findById(h.allTracksAsList, previousTrackId)
    IN  /\ Called("returnToLast", NoId, h, h.userDefinedTrackMaps, FALSE)
        /\ UNCHANGED <<defaultTracks, allocated, contextMap>>
        /\ IF previousTrackId = NoId
           THEN Unrendered
           ELSE Render(SubSeq(h.journeyStack, 1, Len(h.journeyStack) - 1), TRUE,
                       IF matchingTrack = <<>> THEN currentPosition
                       ELSE matchingTrack[1].position,
                       userDefinedTrackMaps, FALSE)

\* returnToLast without the setCurrentPosition of line 125
returnToLastStaying(h) ==
    LET previousTrackId == PreviousTrackId(h.journeyStack)
        matchingTrack == findById(h.allTracksAsList, previousTrackId)
    IN  /\ Called("returnToLast", NoId, h, h.userDefinedTrackMaps, FALSE)
        /\ UNCHANGED <<defaultTracks, allocated, contextMap>>
        /\ IF previousTrackId = NoId \/ matchingTrack = <<>>
           THEN Unrendered
           ELSE Render(SubSeq(h.journeyStack, 1, Len(h.journeyStack) - 1), TRUE,
                       currentPosition,
                       userDefinedTrackMaps, FALSE)

\* lines 114-126
returnToLast(h) ==
    LET previousTrackId == PreviousTrackId(h.journeyStack)
        matchingTrack == findById(h.allTracksAsList, previousTrackId)
    IN  /\ Called("returnToLast", NoId, h, h.userDefinedTrackMaps, FALSE)
        /\ UNCHANGED <<defaultTracks, allocated, contextMap>>
        /\ IF previousTrackId = NoId \/ matchingTrack = <<>>
           THEN Unrendered
           ELSE Render(SubSeq(h.journeyStack, 1, Len(h.journeyStack) - 1), TRUE,
                       matchingTrack[1].position,
                       userDefinedTrackMaps, FALSE)

\* a || b on numbers: 0 (like undefined) is falsy
JsOr(a, b) == IF a # 0 THEN a ELSE b

\* userStartPosition?.[0] || currentPosition?.[0] || 0
OffsetX(userStartPosition, position) ==
    JsOr(IF userStartPosition = <<>> THEN 0 ELSE userStartPosition[1].x,
         JsOr(position.x, 0))

\* userStartPosition?.[1] || currentPosition?.[1] || 0
OffsetY(userStartPosition, position) ==
    JsOr(IF userStartPosition = <<>> THEN 0 ELSE userStartPosition[1].y,
         JsOr(position.y, 0))

\* lines 133-138: the translated copy; every position is a new array
UserTargetMap(initialTrackMap, offsetX, offsetY, n) ==
    [ k \in DOMAIN initialTrackMap |->
        [ id |-> initialTrackMap[k].id,
          position |-> Pos(offsetX + initialTrackMap[k].position.x,
                           offsetY + initialTrackMap[k].position.y,
                           FreshRef(n, k)),
          render |-> initialTrackMap[k].render ] ]

\* lines 128-143
registerNewTracks(h, id, initialTrackMap, userStartPosition) ==
    LET offsetX == OffsetX(userStartPosition, h.currentPosition)
        offsetY == OffsetY(userStartPosition, h.currentPosition)
        userTargetMap == UserTargetMap(initialTrackMap, offsetX, offsetY, allocated + 1)
        mutated == MapSet(h.userDefinedTrackMaps, [id |-> id, tracks |-> userTargetMap])
    IN  /\ allocated' = allocated + 1
        /\ Called("registerNewTracks", id, h, mutated, TRUE)
        /\ UNCHANGED <<defaultTracks, contextMap>>
        /\ Render(journeyStack, FALSE, currentPosition, mutated, TRUE)

\* deregisterTracks without the loop of lines 153-155
deregisterTracksKeepContext(h, id) ==
    /\ Called("deregisterTracks", id, h,
              IF id = NoId THEN h.userDefinedTrackMaps
              ELSE MapDelete(h.userDefinedTrackMaps, id), TRUE)
    /\ UNCHANGED <<defaultTracks, allocated, contextMap>>
    /\ Render(journeyStack, FALSE, currentPosition,
              IF id = NoId THEN <<>> ELSE MapDelete(h.userDefinedTrackMaps, id), TRUE)

\* deregisterTracks that purges the contexts of every overlay when no owner is given
deregisterTracksPurgeAll(h, id) ==
    /\ Called("deregisterTracks", id, h,
              IF id = NoId THEN h.userDefinedTrackMaps
              ELSE MapDelete(h.userDefinedTrackMaps, id), TRUE)
    /\ UNCHANGED <<defaultTracks, allocated>>
    /\ LET owners == IF id = NoId THEN MapKeys(h.userDefinedTrackMaps) ELSE {id}
           keysToRemove ==
               UNION { MapKeys(h.userDefinedTrackMaps[i].tracks) :
                         i \in { j \in DOMAIN h.userDefinedTrackMaps :
                                    h.userDefinedTrackMaps[j].id \in owners } }
       IN  /\ contextMap' = ContextDeleteAll(contextMap, keysToRemove)
           /\ Render(journeyStack, FALSE, currentPosition,
                     IF id = NoId THEN <<>> ELSE MapDelete(h.userDefinedTrackMaps, id),
                     TRUE)

\* lines 144-160; id = NoId is the call without an owner
deregisterTracks(h, id) ==
    /\ UNCHANGED <<defaultTracks, allocated>>
    /\ IF id = NoId
       THEN /\ Called("deregisterTracks", id, h, h.userDefinedTrackMaps, TRUE)
            /\ UNCHANGED contextMap
            /\ Render(journeyStack, FALSE, currentPosition, <<>>, TRUE)
       ELSE LET found == MapGet(h.userDefinedTrackMaps, id)
                keysToRemove == IF found = <<>> THEN {} ELSE MapKeys(found[1].tracks)
                mutated == MapDelete(h.userDefinedTrackMaps, id)
            IN  /\ Called("deregisterTracks", id, h, mutated, TRUE)
                /\ contextMap' = ContextDeleteAll(contextMap, keysToRemove)
                /\ Render(journeyStack, FALSE, currentPosition, mutated, TRUE)

---------------------------------------------------------------------------
(* useLinearTrack (src/src/useLinearTracks.ts) *)

\* Railway.tsx, lines 24-26
DOWN == [x |-> 0, y |-> 1]
LEFT == [x |-> 0 - 1, y |-> 0]
RIGHT == [x |-> 1, y |-> 0]

\* directionToPositionDelta with left and right exchanged
directionToPositionDeltaMirrored(direction) ==
    IF direction = "left" THEN RIGHT
    ELSE IF direction = "right" THEN LEFT
    ELSE IF direction = "down" THEN DOWN
    ELSE DOWN

\* lines 7-12
directionToPositionDelta(direction) ==
    IF direction = "left" THEN LEFT
    ELSE IF direction = "right" THEN RIGHT
    ELSE IF direction = "down" THEN DOWN
    ELSE DOWN

\* StepDefinition: direction is Undefined when the step omits it
Step(id, direction) == [id |-> id, direction |-> direction, render |-> id]

StepIds == {"a", "b", "c"}

StepDirections == {Undefined, "left", "right", "down"}

\* the step lists given to useLinearTrack
StepLists ==
    UNION { [1..n -> { Step(id, direction) : id \in StepIds, direction \in StepDirections }] :
              n \in 0..MaxSteps }

\* lines 31-45: the loop from index (counted from 1) on, with the position
\* reached so far and the Map built so far
RECURSIVE GenerateFrom(_, _, _, _, _)
GenerateFrom(steps, index, currentPositionX, currentPositionY, built) ==
    IF index > Len(steps)
    THEN built
    ELSE LET stepRef == steps[index]
             delta == IF index # 1
                      THEN directionToPositionDelta(
                               IF stepRef.direction = Undefined THEN "right"
                               ELSE stepRef.direction)
                      ELSE [x |-> 0, y |-> 0]
             x == currentPositionX + delta.x
             y == currentPositionY + delta.y
         IN  GenerateFrom(steps, index + 1, x, y,
                          MapSet(built, Track(stepRef.id, x, y, BaseRef(index),
                                              stepRef.render)))

\* lines 20-47
generateTracksFromSteps(steps) ==
    GenerateFrom(steps, 1, 0, 0, <<>>)

\* lines 55-57: the memo is computed at the first render
useLinearTrack ==
    /\ tracks = <<>>
    /\ tracks' = << generateTracksFromSteps(stepDefinitions) >>
    /\ UNCHANGED <<defaultTracks, journeyStack, currentPosition, userDefinedTrackMaps,
                   contextMap, allTracksAsList, currentTrack, returnDirection,
                   allocated, last, held, stepDefinitions>>

---------------------------------------------------------------------------
(* Specification *)

\* lines 56-93: the first render of a provider given one of the maps
InitRailway(maps) ==
    /\ defaultTracks \in maps
    /\ journeyStack = <<"start">>
    /\ currentPosition = Pos(0, 0, InitialRef)
    /\ userDefinedTrackMaps = <<>>
    /\ contextMap = {}
    /\ allTracksAsList = getTracksFromMap(defaultTracks, <<>>)
    /\ currentTrack = findByPosition(allTracksAsList, currentPosition)
    /\ returnDirection =
         ComputeReturnDirection(journeyStack, allTracksAsList, currentTrack, currentPosition)
    /\ allocated = 0
    /\ last = Call("useRailwayProviderValue", NoId)
    /\ held = <<>>

Init ==
    /\ InitRailway(DefaultTrackMaps)
    /\ stepDefinitions = <<>>
    /\ tracks = <<>>

\* Every call goes through the handle of the latest render (railway).
Next ==
    \/ \E id \in ViewIds, context \in Contexts : navigateToView(railway, id, context)
    \/ returnToLast(railway)
    \/ \E id \in OwnerIds, userStartPosition \in StartPositions :
          /\ allocated < MaxRegistrations
          /\ registerNewTracks(railway, id, mapCreator(id), userStartPosition)
    \/ \E id \in OwnerIds \cup {NoId} : deregisterTracks(railway, id)

Spec == Init /\ [][Next]_vars

\* An observer keeps the value the hook returned at the latest render (lines
\* 162-169): the arrays and lists of that render, and a reference to the one
\* Map behind contextMapRef, of which it has read the present content.
Capture ==
    /\ held = <<>>
    /\ held' = << [ h |-> [railway EXCEPT !.handle = "held"], contextMap |-> contextMap,
                    age |-> "new", current |-> TRUE ] >>
    /\ UNCHANGED <<defaultTracks, journeyStack, currentPosition, userDefinedTrackMaps,
                   contextMap, allTracksAsList, currentTrack, returnDirection,
                   allocated, last, stepDefinitions, tracks>>

\* The calls of one owner, with an observer that keeps a handle at some render.
NextObserved ==
    \/ Capture
    \/ \E id \in ViewIds : navigateToView(railway, id, "ctx")
    \/ returnToLast(railway)
    \/ \E userStartPosition \in StartPositions :
          /\ allocated < MaxRegistrations
          /\ registerNewTracks(railway, "app", mapCreator("app"), userStartPosition)
    \/ \E id \in {"app", NoId} : deregisterTracks(railway, id)

SpecObserved == Init /\ [][NextObserved]_vars

\* The owners lay down and take up their overlays while the journey stays on
\* the initial view.
NextOverlays ==
    \/ \E id \in OwnerIds, userStartPosition \in StartPositions :
          /\ allocated < MaxOverlays
          /\ registerNewTracks(railway, id, mapCreator(id), userStartPosition)
    \/ \E id \in OwnerIds \cup {NoId} : deregisterTracks(railway, id)

SpecOverlays == Init /\ [][NextOverlays]_vars

\* Railway.tsx line 55: the cleanup of the effect of useRailwayTracks calls
\* deregisterTracks on the handle of the render in which the effect ran, which
\* is the kept handle and not the one of the latest render.
useRailwayTracksCleanup(id) ==
    /\ held # <<>>
    /\ deregisterTracks(held[1].h, id)

\* A component keeps the handle of one render for its cleanup; the owners lay
\* down overlays through the handle of the latest render meanwhile.
NextStale ==
    \/ Capture
    \/ \E id \in OwnerIds, userStartPosition \in StartPositions :
          /\ allocated < MaxRegistrations
          /\ registerNewTracks(railway, id, mapCreator(id), userStartPosition)
    \/ \E id \in OwnerIds : useRailwayTracksCleanup(id)

SpecStale == Init /\ [][NextStale]_vars

\* navigateToView and returnToLast alone, on a base map of several views
InitNavigation ==
    /\ InitRailway(NavigationTrackMaps)
    /\ stepDefinitions = <<>>
    /\ tracks = <<>>

NextNavigation ==
    \/ \E id \in ViewIds, context \in Contexts : navigateToView(railway, id, context)
    \/ returnToLast(railway)

SpecNavigation == InitNavigation /\ [][NextNavigation]_vars

\* useLinearTrack alone, on the step lists up to MaxSteps
InitLinear ==
    /\ InitRailway(DefaultTrackMaps)
    /\ stepDefinitions \in StepLists
    /\ tracks = <<>>

NextLinear == useLinearTrack

SpecLinear == InitLinear /\ [][NextLinear]_vars

---------------------------------------------------------------------------
(* Properties *)

Ids(list) == { list[i].id : i \in DOMAIN list }

\* the ids an owner's stored overlay declares
DeclaredIds(maps, id) ==
    IF MapGet(maps, id) = <<>> THEN {} ELSE MapKeys(MapGet(maps, id)[1].tracks)

\* C1: the flattened registry holds no two entries on the same position (x, y).
C1_NoSharedPosition ==
    \A i, j \in DOMAIN allTracksAsList :
        i # j => ~SamePosition(allTracksAsList[i].position, allTracksAsList[j].position)

\* C2: the flattened registry holds no two entries with the same id.
C2_NoSharedId ==
    \A i, j \in DOMAIN allTracksAsList :
        i # j => allTracksAsList[i].id # allTracksAsList[j].id

\* two owners are registered, both declare "x", and one declares the base id
C2_Witness ==
    /\ Len(userDefinedTrackMaps) = 2
    /\ "x" \in DeclaredIds(userDefinedTrackMaps, "app") \cap DeclaredIds(userDefinedTrackMaps, "more")
    /\ "start" \in DeclaredIds(userDefinedTrackMaps, "more") \cap Ids(defaultTracks)
    /\ "x" \in Ids(allTracksAsList)

\* the positions the entries named id have in list
PositionsOf(list, id) == { list[i].position : i \in { j \in DOMAIN list : list[j].id = id } }

\* C3: navigateToView(id, context) with an id of the flattened registry moves
\* currentPosition to that view's position, appends exactly id to journeyStack
\* and stores context (undefined included) under id, over any earlier value.
C3_NavigateToRegisteredId ==
    [][ (last'.op = "navigateToView" /\ last'.id \in Ids(allTracksAsList)) =>
          \A context \in Contexts :
             navigateToView(railway, last'.id, context) =>
                /\ \A p \in PositionsOf(allTracksAsList, last'.id) :
                      SamePosition(currentPosition', p)
                /\ journeyStack' = journeyStack \o <<last'.id>>
                /\ { e \in contextMap' : e.key = last'.id } =
                      { [key |-> last'.id, value |-> context] }
      ]_vars

\* "x" was visited twice in a row; the second visit left undefined as its context
C3_Witness ==
    /\ last = Call("navigateToView", "x")
    /\ journeyStack = <<"start", "x", "x">>
    /\ [key |-> "x", value |-> Undefined] \in contextMap
    /\ \E p \in PositionsOf(allTracksAsList, "x") : SamePosition(currentPosition, p)

\* C4: navigateToView(id, context) with an id that is not in the flattened
\* registry leaves journeyStack, currentPosition and contextMap as they were.
C4_NavigateToUnknownId ==
    [][ (last'.op = "navigateToView" /\ last'.id \notin Ids(allTracksAsList)) =>
          UNCHANGED <<journeyStack, currentPosition, contextMap>>
      ]_vars

\* a call for "y", which no overlay provides any more, while on an overlay view
C4_Witness ==
    /\ last = Call("navigateToView", "y")
    /\ "y" \notin Ids(allTracksAsList)
    /\ journeyStack = <<"start", "x">>
    /\ contextMap # {}

\* C5: returnToLast with at least two entries on journeyStack, the second to
\* last of them in the flattened registry, removes exactly the last entry, moves
\* currentPosition to that view and leaves contextMap alone; with fewer than two
\* entries it changes nothing.
C5_ReturnToLast ==
    [][ last'.op = "returnToLast" =>
          IF Len(journeyStack) >= 2
          THEN journeyStack[Len(journeyStack) - 1] \in Ids(allTracksAsList) =>
                 /\ journeyStack' = SubSeq(journeyStack, 1, Len(journeyStack) - 1)
                 /\ \A p \in PositionsOf(allTracksAsList, journeyStack[Len(journeyStack) - 1]) :
                       SamePosition(currentPosition', p)
                 /\ contextMap' = contextMap
          ELSE UNCHANGED <<journeyStack, currentPosition, contextMap>>
      ]_vars

\* back on "x" after leaving "y", whose context is still stored
C5_Witness ==
    /\ last = Call("returnToLast", NoId)
    /\ journeyStack = <<"start", "x">>
    /\ contextMap = { [key |-> "x", value |-> "ctx"], [key |-> "y", value |-> "ctx"] }
    /\ \E p \in PositionsOf(allTracksAsList, "x") : SamePosition(currentPosition, p)

\* C6: registerNewTracks stores every view at anchor + position, the anchor
\* being userStartPosition whenever one is given and currentPosition otherwise.
C6_RegisterAtAnchor ==
    [][ last'.op = "registerNewTracks" =>
          \A userStartPosition \in StartPositions :
             registerNewTracks(railway, last'.id, mapCreator(last'.id), userStartPosition) =>
             LET anchor == IF userStartPosition = <<>>
                           THEN [x |-> currentPosition.x, y |-> currentPosition.y]
                           ELSE userStartPosition[1]
                 given == mapCreator(last'.id)
                 stored == MapGet(userDefinedTrackMaps', last'.id)
             IN  /\ stored # <<>>
                 /\ DOMAIN stored[1].tracks = DOMAIN given
                 /\ \A k \in DOMAIN given :
                       /\ stored[1].tracks[k].id = given[k].id
                       /\ stored[1].tracks[k].position.x = anchor.x + given[k].position.x
                       /\ stored[1].tracks[k].position.y = anchor.y + given[k].position.y
      ]_vars

\* C7 as stated: deregisterTracks(ownerId) leaves none of the ids of the removed
\* overlay in the flattened registry or in contextMap, and neither adds nor
\* removes any other id.
C7_DeregisterOwnerAsStated ==
    [][ (last'.op = "deregisterTracks" /\ last'.id \in OwnerIds) =>
             LET removed == DeclaredIds(userDefinedTrackMaps, last'.id)
             IN  /\ removed \cap Ids(allTracksAsList') = {}
                 /\ removed \cap ContextKeys(contextMap') = {}
                 /\ Ids(allTracksAsList') \ removed = Ids(allTracksAsList) \ removed
                 /\ ContextKeys(contextMap') \ removed = ContextKeys(contextMap) \ removed
      ]_vars

\* C7 as amended: deregisterTracks(ownerId) leaves none of the ids of the
\* removed overlay in contextMap, leaves such an id in the flattened registry
\* only where the base map or an overlay that stays declares it too, and
\* neither adds nor removes any other id.
C7_DeregisterOwner ==
    [][ (last'.op = "deregisterTracks" /\ last'.id \in OwnerIds) =>
             LET removed == DeclaredIds(userDefinedTrackMaps, last'.id)
                 kept == Ids(defaultTracks) \cup
                         UNION { DeclaredIds(userDefinedTrackMaps, o) :
                                   o \in OwnerIds \ {last'.id} }
             IN  /\ removed \cap Ids(allTracksAsList') \subseteq kept
                 /\ removed \cap ContextKeys(contextMap') = {}
                 /\ Ids(allTracksAsList') \ removed = Ids(allTracksAsList) \ removed
                 /\ ContextKeys(contextMap') \ removed = ContextKeys(contextMap) \ removed
      ]_vars

\* "more" was removed after visits to "x" and "y": their contexts are gone,
\* the base view "start" that "more" also declared is still registered
C7_Witness ==
    /\ last = Call("deregisterTracks", "more")
    /\ MapKeys(userDefinedTrackMaps) = {"app"}
    /\ journeyStack = <<"start", "x", "y">>
    /\ contextMap = {}
    /\ Ids(allTracksAsList) = {"start", "x", "y"}

\* C8: deregisterTracks without an owner removes every overlay at once, the
\* flattened registry being the base map afterwards, and leaves contextMap,
\* journeyStack and currentPosition alone.
C8_DeregisterAll ==
    [][ (last'.op = "deregisterTracks" /\ last'.id = NoId) =>
          /\ userDefinedTrackMaps' = <<>>
          /\ allTracksAsList' = defaultTracks
          /\ UNCHANGED <<contextMap, journeyStack, currentPosition>>
      ]_vars

\* every overlay is gone while the context of the overlay view "x" is kept
C8_Witness ==
    /\ last = Call("deregisterTracks", NoId)
    /\ allocated = 2
    /\ userDefinedTrackMaps = <<>>
    /\ allTracksAsList = defaultTracks
    /\ journeyStack = <<"start", "x">>
    /\ [key |-> "x", value |-> "ctx"] \in contextMap
    /\ currentPosition.x = 1

\* C9: currentTrack is the entry of the current flattened registry on
\* currentPosition, none when there is no such entry, and isCurrentTrack(id)
\* tells whether that entry has the id.
C9_CurrentTrackOfRegistry ==
    LET entry == findByPosition(allTracksAsList, currentPosition)
    IN  /\ currentTrack = entry
        /\ \A id \in ViewIds : isCurrentTrack(id) <=> (entry # <<>> /\ entry[1].id = id)

\* C10: returnDirection is none with fewer than two entries on journeyStack or
\* when the second to last id or the current view is not in the current
\* flattened registry; otherwise left, right or top by the sign of dx.
C10_ReturnDirectionOfRegistry ==
    returnDirection =
        IF Len(journeyStack) < 2 THEN NoDirection
        ELSE IF \/ journeyStack[Len(journeyStack) - 1] \notin Ids(allTracksAsList)
                \/ findByPosition(allTracksAsList, currentPosition) = <<>>
             THEN NoDirection
             ELSE LET previous == findById(allTracksAsList, journeyStack[Len(journeyStack) - 1])
                      dx == previous[1].position.x - currentPosition.x
                  IN  IF dx < 0 THEN "left" ELSE IF dx > 0 THEN "right" ELSE "top"

\* the id on top of the journeyStack of the held handle
HeldTop == held[1].h.journeyStack[Len(held[1].h.journeyStack)]

\* the handle was kept right before a returnToLast that removed an entry, and
\* the call that follows is navigateToView to the id that was removed
ReturnThenNavigateBack ==
    /\ held # <<>>
    /\ held[1].age = "one call"
    /\ last.op = "returnToLast"
    /\ journeyStack # held[1].h.journeyStack
    /\ last'.op = "navigateToView"
    /\ last'.id = HeldTop

\* C11 as stated: whenever returnToLast succeeds, returnToLast followed at once
\* by navigateToView to the id that was last on journeyStack brings
\* currentPosition back to its value before the return, and journeyStack back
\* to its length before the return.
C11_ReturnThenNavigateAsStated ==
    [][ ReturnThenNavigateBack =>
          /\ SamePosition(currentPosition', held[1].h.currentPosition)
          /\ Len(journeyStack') = Len(held[1].h.journeyStack)
      ]_vars

\* C11 as amended: the same, for a return made while the id that is last on
\* journeyStack is in the flattened registry, on currentPosition.
C11_ReturnThenNavigate ==
    [][ ( /\ ReturnThenNavigateBack
          /\ \E p \in PositionsOf(held[1].h.allTracksAsList, HeldTop) :
                 SamePosition(p, held[1].h.currentPosition) ) =>
          /\ SamePosition(currentPosition', held[1].h.currentPosition)
          /\ Len(journeyStack') = Len(held[1].h.journeyStack)
      ]_vars

\* the observer saw <<start, x, y>> on the cell of "y", then the return to "x"
\* and the navigation to "y" again
C11_Witness ==
    /\ held # <<>>
    /\ held[1].age = "two calls"
    /\ held[1].h.journeyStack = <<"start", "x", "y">>
    /\ \E p \in PositionsOf(held[1].h.allTracksAsList, "y") :
           SamePosition(p, held[1].h.currentPosition)
    /\ last = Call("navigateToView", "y")
    /\ journeyStack = <<"start", "x", "y">>
    /\ SamePosition(currentPosition, held[1].h.currentPosition)

\* the entry is one of the flattened registry, position array and payload included
Listed(e) == \E j \in DOMAIN allTracksAsList : allTracksAsList[j] = e

\* the entry has the id or the position of an entry of the base map
ConflictsWithBase(e) ==
    \E i \in DOMAIN defaultTracks :
        \/ defaultTracks[i].id = e.id
        \/ SamePosition(defaultTracks[i].position, e.position)

\* the entry has the id or the position of another entry of the flattened registry
ConflictsWithListed(e) ==
    \E j \in DOMAIN allTracksAsList :
        /\ allTracksAsList[j] # e
        /\ \/ allTracksAsList[j].id = e.id
           \/ SamePosition(allTracksAsList[j].position, e.position)

\* C12: every entry of the base map is in the flattened registry with its own
\* position and payload, whatever overlays are registered; an overlay entry
\* whose translated position is that of a base view, or whose id is a base id,
\* is not in the flattened registry; an entry of the same overlay that
\* conflicts with nothing is.
C12_BaseWinsEntryDropped ==
    /\ \A i \in DOMAIN defaultTracks :
          /\ Listed(defaultTracks[i])
          /\ findById(allTracksAsList, defaultTracks[i].id) = << defaultTracks[i] >>
    /\ \A o \in DOMAIN userDefinedTrackMaps :
          \A k \in DOMAIN userDefinedTrackMaps[o].tracks :
             LET e == userDefinedTrackMaps[o].tracks[k]
             IN  /\ ConflictsWithBase(e) => ~Listed(e)
                 /\ (~ConflictsWithBase(e) /\ ~ConflictsWithListed(e)) => Listed(e)

\* "more" is registered on the cell of "start": its "y" is on the cell of the
\* base view, its "start" has the id of the base view, and its "x", which
\* conflicts with nothing, is the only one of the three in the registry
C12_Witness ==
    /\ MapKeys(userDefinedTrackMaps) = {"more"}
    /\ LET declared == userDefinedTrackMaps[1].tracks
       IN  /\ SamePosition(declared[1].position, defaultTracks[1].position)
           /\ declared[2].id = defaultTracks[1].id
           /\ allTracksAsList = << defaultTracks[1], declared[3] >>

\* C13: journeyStack is never empty and its first entry is always the initial
\* view id, "start"; no call removes or replaces that entry.
C13_StartStaysFirst ==
    /\ journeyStack # <<>>
    /\ journeyStack[1] = "start"

\* back on the initial view after visits to "x" and "y", by returnToLast
C13_Witness ==
    /\ last = Call("returnToLast", NoId)
    /\ journeyStack = <<"start">>
    /\ ContextKeys(contextMap) = {"x", "y"}
    /\ SamePosition(currentPosition, defaultTracks[1].position)

\* what an observer reads through a handle: the values of the handle's render
\* and, behind its contextMap reference, the Map as it is now
Seen(h) ==
    [ journeyStack |-> h.journeyStack, currentPosition |-> h.currentPosition,
      contextMap |-> contextMap, allTracksAsList |-> h.allTracksAsList ]

\* C14: an observer holding a snapshot sees the complete state of the render
\* it took it from or the complete state of now, never a mix of the two, and
\* the overlay collection under its snapshot is the one of that render.
C14_SnapshotSwap ==
    held # <<>> =>
       /\ \/ Seen(held[1].h) = [ Seen(held[1].h) EXCEPT !.contextMap = held[1].contextMap ]
          \/ Seen(held[1].h) = Seen(railway)
       /\ held[1].h.allTracksAsList =
             getTracksFromMap(defaultTracks, held[1].h.userDefinedTrackMaps)

\* the position the rule of the builder gives to the i-th step: (0, 0) for the
\* first one, the position of the step before plus the unit of its direction
\* for the others
RECURSIVE StepPosition(_, _)
StepPosition(steps, i) ==
    IF i = 1 THEN [x |-> 0, y |-> 0]
    ELSE LET before == StepPosition(steps, i - 1)
             direction == steps[i].direction
         IN  [ x |-> before.x + (IF direction = "left" THEN 0 - 1
                                 ELSE IF direction = "down" THEN 0 ELSE 1),
               y |-> before.y + (IF direction = "down" THEN 1 ELSE 0) ]

\* the i-th step is in the map at the position the rule gives it
StepPlaced(i) ==
    /\ MapHas(tracks[1], stepDefinitions[i].id)
    /\ SamePosition(MapGet(tracks[1], stepDefinitions[i].id)[1].position,
                    StepPosition(stepDefinitions, i))

\* C15 as stated: for every step list the first step is at (0, 0) whatever its
\* direction, and every later step is at the position of the step before it
\* plus the unit of its direction (left (-1, 0), right (1, 0), down (0, 1),
\* right when omitted).
C15_LinearPositionsAsStated ==
    tracks # <<>> => \A i \in DOMAIN stepDefinitions : StepPlaced(i)

\* C15 as amended: the same for every step whose id no later step of the list
\* carries, hence for every step of a list with distinct ids; the map holds
\* each id of the list once.
C15_LinearPositions ==
    tracks # <<>> =>
       /\ \A i \in DOMAIN stepDefinitions :
             (\A j \in DOMAIN stepDefinitions : j > i => stepDefinitions[j].id # stepDefinitions[i].id)
                => StepPlaced(i)
       /\ MapKeys(tracks[1]) = { stepDefinitions[i].id : i \in DOMAIN stepDefinitions }
       /\ \A i, j \in DOMAIN tracks[1] : i # j => tracks[1][i].id # tracks[1][j].id

\* the steps a, b (down), c (right) gave a at (0, 0), b at (0, 1), c at (1, 1)
C15_Witness ==
    /\ stepDefinitions = << Step("a", Undefined), Step("b", "down"), Step("c", "right") >>
    /\ tracks # <<>>
    /\ Len(tracks[1]) = 3
    /\ tracks[1][1].id = "a" /\ SamePosition(tracks[1][1].position, [x |-> 0, y |-> 0])
    /\ tracks[1][2].id = "b" /\ SamePosition(tracks[1][2].position, [x |-> 0, y |-> 1])
    /\ tracks[1][3].id = "c" /\ SamePosition(tracks[1][3].position, [x |-> 1, y |-> 1])

\* C16: returnToLast with at least two entries on journeyStack, the second to
\* last of them not in the flattened registry, leaves journeyStack,
\* currentPosition and contextMap as they were.
C16_ReturnToUnregistered ==
    [][ ( /\ last'.op = "returnToLast"
          /\ Len(journeyStack) >= 2
          /\ journeyStack[Len(journeyStack) - 1] \notin Ids(allTracksAsList) ) =>
          UNCHANGED <<journeyStack, currentPosition, contextMap>>
      ]_vars

\* a return from "y" to "x" was asked for after every overlay had been removed
C16_Witness ==
    /\ last = Call("returnToLast", NoId)
    /\ journeyStack = <<"start", "x", "y">>
    /\ userDefinedTrackMaps = <<>>
    /\ "x" \notin Ids(allTracksAsList)
    /\ ContextKeys(contextMap) = {"x", "y"}
    /\ currentPosition.x = 1

\* the entries with the id that the overlays other than owner's declare
DeclaredElsewhere(owner, id) ==
    { o \in DOMAIN userDefinedTrackMaps :
         /\ userDefinedTrackMaps[o].id # owner
         /\ MapHas(userDefinedTrackMaps[o].tracks, id) }

\* the navigateToView(id) that follows a registerNewTracks(owner, ...) which
\* added id without a conflict
NavigateToAdded(owner, id) ==
    /\ MapHas(userDefinedTrackMaps, owner)
    /\ MapHas(MapGet(userDefinedTrackMaps, owner)[1].tracks, id)
    /\ ~ConflictsWithBase(MapGet(MapGet(userDefinedTrackMaps, owner)[1].tracks, id)[1])
    /\ DeclaredElsewhere(owner, id) = {}

OwnerOrder(maps) == [ i \in DOMAIN maps |-> maps[i].id ]

\* the order in which the owners of now were first registered, after a call
\* of owner id: a registration puts a new owner last and leaves an owner
\* that registers again where it was
OrderAfter(order, op, id) ==
    IF op = "registerNewTracks"
    THEN IF \E i \in DOMAIN order : order[i] = id THEN order ELSE Append(order, id)
    ELSE IF id = NoId THEN <<>>
    ELSE SelectSeq(order, LAMBDA o : o # id)

\* C18: when the overlays of two registered owners declare the same id, and
\* neither entry conflicts with the base map, the flattened registry holds the
\* entry of the owner that was registered earlier, also after that owner
\* registered again under the same owner id.
C18_EarlierOwnerWins ==
    [][ last'.op \in {"registerNewTracks", "deregisterTracks"} =>
          /\ OwnerOrder(userDefinedTrackMaps') =
                OrderAfter(OwnerOrder(userDefinedTrackMaps), last'.op, last'.id)
          /\ \A a, b \in DOMAIN userDefinedTrackMaps' :
                a < b =>
                  \A i \in DOMAIN userDefinedTrackMaps'[a].tracks,
                     j \in DOMAIN userDefinedTrackMaps'[b].tracks :
                     LET earlier == userDefinedTrackMaps'[a].tracks[i]
                         later == userDefinedTrackMaps'[b].tracks[j]
                     IN  ( /\ earlier.id = later.id
                           /\ ~ConflictsWithBase(earlier)
                           /\ ~ConflictsWithBase(later) ) =>
                           /\ \E k \in DOMAIN allTracksAsList' : allTracksAsList'[k] = earlier
                           /\ \A k \in DOMAIN allTracksAsList' : allTracksAsList'[k] # later
      ]_vars

\* "app" registered first, "more" second, then "app" again: the "x" of the
\* registry is the one "app" has just laid down, not the older one of "more"
C18_Witness ==
    /\ last = Call("registerNewTracks", "app")
    /\ allocated = 3
    /\ OwnerOrder(userDefinedTrackMaps) = <<"app", "more">>
    /\ userDefinedTrackMaps[1].tracks[1].position.ref = FreshRef(3, 1)
    /\ userDefinedTrackMaps[2].tracks[3].position.ref = FreshRef(2, 3)
    /\ userDefinedTrackMaps[1].tracks[1].id = "x"
    /\ userDefinedTrackMaps[2].tracks[3].id = "x"
    /\ ~ConflictsWithBase(userDefinedTrackMaps[2].tracks[3])
    /\ findById(allTracksAsList, "x") = << userDefinedTrackMaps[1].tracks[1] >>

\* the flattened registry takes the view id from the overlay of an owner
\* other than owner
TakenFromAnother(owner, id) ==
    \E o \in DOMAIN userDefinedTrackMaps :
        /\ userDefinedTrackMaps[o].id # owner
        /\ \E k \in DOMAIN userDefinedTrackMaps[o].tracks :
              findById(allTracksAsList, id) = << userDefinedTrackMaps[o].tracks[k] >>

\* C19: deregisterTracks(ownerId) deletes no context entry of a view of the
\* base map, nor of a view the flattened registry takes from the overlay of
\* another owner, whatever entries the removed overlay declared.
C19_ContextOfOthersKept ==
    [][ (last'.op = "deregisterTracks" /\ last'.id \in OwnerIds) =>
          \A e \in contextMap :
             (e.key \in Ids(defaultTracks) \/ TakenFromAnother(last'.id, e.key)) =>
                e \in contextMap'
      ]_vars

\* C20: when the base map has "start" at (0, 0) and only navigateToView and
\* returnToLast are called, currentPosition is the position of the view that
\* the last entry of journeyStack names.
C20_PositionOfLastEntry ==
    ( /\ journeyStack # <<>>
      /\ \E i \in DOMAIN defaultTracks :
            /\ defaultTracks[i].id = "start"
            /\ SamePosition(defaultTracks[i].position, [x |-> 0, y |-> 0]) ) =>
       /\ findById(allTracksAsList, journeyStack[Len(journeyStack)]) # <<>>
       /\ SamePosition(currentPosition,
              findById(allTracksAsList, journeyStack[Len(journeyStack)])[1].position)

\* back on "x" at (1, 0), after a visit to "y" at (1, 1), by returnToLast
C20_Witness ==
    /\ userDefinedTrackMaps = <<>>
    /\ allocated = 0
    /\ Len(defaultTracks) = 3
    /\ SamePosition(defaultTracks[3].position, [x |-> 1, y |-> 1])
    /\ last = Call("returnToLast", NoId)
    /\ journeyStack = <<"start", "x">>
    /\ "y" \in ContextKeys(contextMap)
    /\ SamePosition(currentPosition, defaultTracks[2].position)

\* the overlay of owner, and each of its entries the flattened registry holds,
\* are there after the step as before it
OverlayKept(owner) ==
    /\ MapGet(userDefinedTrackMaps', owner) = MapGet(userDefinedTrackMaps, owner)
    /\ \A k \in DOMAIN MapGet(userDefinedTrackMaps, owner)[1].tracks :
          LET e == MapGet(userDefinedTrackMaps, owner)[1].tracks[k]
          IN  Listed(e) => \E j \in DOMAIN allTracksAsList' : allTracksAsList'[j] = e

\* C21: deregisterTracks(ownerId) called through a handle kept from an earlier
\* render removes only the overlay of that owner: the overlay of every other
\* owner, laid down after the handle was kept or before, is still in the
\* overlay collection and in the flattened registry afterwards.
C21_StaleDeregisterKeepsOthers ==
    [][ (held # <<>> /\ last'.op = "deregisterTracks" /\ last'.id \in OwnerIds) =>
          \A owner \in MapKeys(userDefinedTrackMaps) \ {last'.id} : OverlayKept(owner)
      ]_vars

=============================================================================
